---- MODULE Spec2Model ----
(***************************************************************************)
(* ResponsePane (app/ui/components/ResponsePane.js): the response loader   *)
(* (_getResponse, driven by componentDidMount/componentWillReceiveProps)   *)
(* and the body exporter (_handleDownloadResponseBody with its save-dialog *)
(* and fs.writeFile callbacks), as a state machine over the pane's props,  *)
(* its state.response, the response storage, the lookups in flight and the *)
(* exports in progress.                                                    *)
(***************************************************************************)
EXTENDS Integers, Sequences, FiniteSets

\* ---------------------------------------------------------------- bounds
NumRequests == 2
MaxStored == 2
MaxLoads == 2
MaxExports == 2

\* ------------------------------------------------------------- constants
\* null, for props.request and for state.response
NoRequest == 0
NoResponse == 0

Requests == 1..NumRequests
RequestProps == {NoRequest} \cup Requests

\* Bodies are sequences of character codes.
\* "SGVsbG8=" / base64 / text/plain and "hé" / utf8 / application/json
Payloads ==
  << [body |-> <<83, 71, 86, 115, 98, 71, 56, 61>>, encoding |-> "base64",
      contentType |-> "text/plain"],
     [body |-> <<104, 233>>, encoding |-> "utf8",
      contentType |-> "application/json"] >>

\* What the save dialog hands to its callback: undefined, '' or a path.
Undefined == "undefined"
Filenames == {Undefined, "", "/tmp/body"}

VARIABLES
  mounted,     \* componentDidMount has run
  request,     \* this.props.request (its _id, or NoRequest)
  response,    \* this.state.response (its _id, or NoResponse)
  store,       \* response storage: store[i] is the response with _id i
  lookups,     \* _getResponse calls suspended at their await, in call order
  loads,       \* number of _getResponse invocations so far
  storedSinceLoad, \* a response was stored after the last _getResponse call
  exports      \* _handleDownloadResponseBody invocations, in call order: the
               \* response they started with, their closure (bodyBuffer,
               \* extension), what their callbacks were called with (filename,
               \* err) and their effects (prompts, writes, outcomes)

vars == <<mounted, request, response, store, lookups, loads,
          storedSinceLoad, exports>>

loaderVars == <<mounted, request, response, lookups, loads>>

\* ------------------------------------------------------ response storage
\* models.response.getLatestByParentId(parentId): the most recently created
\* response whose parentId matches, or null.
RECURSIVE getLatestByParentId(_, _, _)
getLatestByParentId(docs, parentId, n) ==
  IF n = 0 THEN NoResponse
  ELSE IF docs[n].parentId = parentId
       THEN LET older == getLatestByParentId(docs, parentId, n - 1)
            IN IF older # NoResponse /\ docs[older].created > docs[n].created
               THEN older ELSE n
       ELSE getLatestByParentId(docs, parentId, n - 1)

\* The network layer stores a new response for a request.
CreateResponse(req, p) ==
  /\ Len(store) < MaxStored
  /\ store' = Append(store,
                [parentId |-> req, created |-> Len(store) + 1,
                 body |-> Payloads[p].body, encoding |-> Payloads[p].encoding,
                 contentType |-> Payloads[p].contentType])
  /\ storedSinceLoad' = TRUE
  /\ UNCHANGED <<loaderVars, exports>>

\* ---------------------------------------------------------------- loader
RemoveAt(s, i) == SubSeq(s, 1, i - 1) \o SubSeq(s, i + 1, Len(s))

\* async _getResponse(request), up to its await
GetResponse(req) ==
  /\ loads' = loads + 1
  /\ storedSinceLoad' = FALSE
  /\ IF req = NoRequest
     THEN /\ response' = NoResponse
          /\ UNCHANGED lookups
     ELSE /\ lookups' = Append(lookups,
                          [req |-> req, phase |-> "pending",
                           result |-> NoResponse])
          /\ UNCHANGED response

componentDidMount ==
  /\ ~mounted
  /\ mounted' = TRUE
  /\ GetResponse(request)
  /\ UNCHANGED <<request, store, exports>>

componentWillReceiveProps(nextRequest) ==
  /\ mounted
  /\ loads < MaxLoads
  /\ GetResponse(nextRequest)
  /\ request' = nextRequest
  /\ UNCHANGED <<mounted, store, exports>>

\* StorageRead, querying with the pane's current request instead of the
\* request the loader was called with.
StorageReadOfProps(i) ==
  /\ i \in 1..Len(lookups)
  /\ lookups[i].phase = "pending"
  /\ lookups' = [lookups EXCEPT ![i] =
        [@ EXCEPT !.phase = "read",
                  !.result = getLatestByParentId(store, request, Len(store))]]
  /\ UNCHANGED <<mounted, request, response, store, loads,
                 storedSinceLoad, exports>>

\* The storage read behind the await of lookup i.
StorageRead(i) ==
  /\ i \in 1..Len(lookups)
  /\ lookups[i].phase = "pending"
  /\ lookups' = [lookups EXCEPT ![i] =
        [@ EXCEPT !.phase = "read",
                  !.result = getLatestByParentId(store, lookups[i].req, Len(store))]]
  /\ UNCHANGED <<mounted, request, response, store, loads,
                 storedSinceLoad, exports>>

\* The await of lookup i resolves: this.setState({response})
LookupResolve(i) ==
  /\ i \in 1..Len(lookups)
  /\ lookups[i].phase = "read"
  /\ response' = lookups[i].result
  /\ lookups' = RemoveAt(lookups, i)
  /\ UNCHANGED <<mounted, request, store, loads, storedSinceLoad, exports>>

\* ---------------------------------------------------------------- render
\* Render without its return for a missing response.
RenderWithoutPlaceholder(req, resp) ==
  IF req = NoRequest THEN "empty" ELSE "full"

\* Which of render's three returns is taken.
Render(req, resp) ==
  IF req = NoRequest THEN "empty"
  ELSE IF resp = NoResponse THEN "placeholder"
  ELSE "full"

\* -------------------------------------------------------------- exporter
\* The value of a base64 character, by its code.
Base64Value(c) ==
  IF c \in 65..90 THEN c - 65
  ELSE IF c \in 97..122 THEN c - 71
  ELSE IF c \in 48..57 THEN c + 4
  ELSE IF c = 43 THEN 62
  ELSE 63

\* The base64 digits of a body, up to its padding ('=' is code 61).
RECURSIVE Base64Digits(_)
Base64Digits(body) ==
  IF body = <<>> \/ Head(body) = 61 THEN <<>>
  ELSE <<Base64Value(Head(body))>> \o Base64Digits(Tail(body))

\* Four 6-bit digits make three bytes; a last group of two or three digits
\* makes one or two.
RECURSIVE Base64Bytes(_)
Base64Bytes(d) ==
  IF Len(d) < 2 THEN <<>>
  ELSE LET b1 == d[1] * 4 + (d[2] \div 16)
       IN IF Len(d) = 2 THEN <<b1>>
          ELSE LET b2 == (d[2] % 16) * 16 + (d[3] \div 4)
               IN IF Len(d) = 3 THEN <<b1, b2>>
                  ELSE <<b1, b2, (d[3] % 4) * 64 + d[4]>>
                         \o Base64Bytes(SubSeq(d, 5, Len(d)))

\* The UTF-8 bytes of a string of code points below 2048.
RECURSIVE Utf8Bytes(_)
Utf8Bytes(body) ==
  IF body = <<>> THEN <<>>
  ELSE LET c == Head(body)
       IN (IF c < 128 THEN <<c>> ELSE <<192 + (c \div 64), 128 + (c % 64)>>)
            \o Utf8Bytes(Tail(body))

\* new Buffer(body, encoding)
NewBuffer(body, encoding) ==
  IF encoding = "base64" THEN Base64Bytes(Base64Digits(body)) ELSE Utf8Bytes(body)

\* mime.extension(contentType) || ''
Extension(contentType) ==
  IF contentType = "text/plain" THEN "txt"
  ELSE IF contentType = "application/json" THEN "json"
  ELSE ""

\* The download control of PreviewModeDropdown is part of render's last return.
DownloadRendered == Render(request, response) = "full"

\* HandleDownloadResponseBody without the return after its warning: the
\* dialog is prompted with nothing to save.
HandleDownloadWithoutReturn ==
  /\ Len(exports) < MaxExports
  /\ exports' = Append(exports,
       [response |-> response, phase |-> "dialog",
        bodyBuffer |-> IF response = NoResponse THEN <<>>
                       ELSE NewBuffer(store[response].body, store[response].encoding),
        extension |-> IF response = NoResponse THEN ""
                      ELSE Extension(store[response].contentType),
        prompts |-> 1, filename |-> Undefined,
        writes |-> <<>>, err |-> "none", outcomes |-> <<>>])
  /\ UNCHANGED <<loaderVars, store, storedSinceLoad>>

\* async _handleDownloadResponseBody(), up to the call of showSaveDialog. The
\* download control calls it; as a method it can be called at any time.
HandleDownloadResponseBody ==
  /\ Len(exports) < MaxExports
  /\ IF response = NoResponse
     THEN exports' = Append(exports,
            [response |-> NoResponse, phase |-> "warned", bodyBuffer |-> <<>>,
             extension |-> "", prompts |-> 0, filename |-> Undefined,
             writes |-> <<>>, err |-> "none", outcomes |-> <<>>])
     ELSE exports' = Append(exports,
            [response |-> response, phase |-> "dialog",
             bodyBuffer |-> NewBuffer(store[response].body, store[response].encoding),
             extension |-> Extension(store[response].contentType),
             prompts |-> 1, filename |-> Undefined,
             writes |-> <<>>, err |-> "none", outcomes |-> <<>>])
  /\ UNCHANGED <<loaderVars, store, storedSinceLoad>>

\* SaveDialogCallback without the return after 'Save Cancel': the write is
\* issued all the same.
SaveDialogCallbackWithoutReturn(e, filename) ==
  /\ e \in 1..Len(exports)
  /\ exports[e].phase = "dialog"
  /\ exports' = [exports EXCEPT ![e] =
       [@ EXCEPT !.phase = "writing", !.filename = filename,
                 !.outcomes = IF filename \in {Undefined, ""}
                              THEN Append(@, "Save Cancel") ELSE @,
                 !.writes = Append(@, [filename |-> filename,
                                       data |-> exports[e].bodyBuffer])]]
  /\ UNCHANGED <<loaderVars, store, storedSinceLoad>>

\* SaveDialogCallback decoding the body of this.state.response when the
\* dialog returns, instead of the buffer made when the export started.
SaveDialogCallbackLateRead(e, filename) ==
  /\ e \in 1..Len(exports)
  /\ exports[e].phase = "dialog"
  /\ IF filename \in {Undefined, ""}
     THEN exports' = [exports EXCEPT ![e] =
            [@ EXCEPT !.phase = "done", !.filename = filename,
                      !.outcomes = Append(@, "Save Cancel")]]
     ELSE exports' = [exports EXCEPT ![e] =
            [@ EXCEPT !.phase = "writing", !.filename = filename,
                      !.writes = Append(@,
                         [filename |-> filename,
                          data |-> IF response = NoResponse THEN <<>>
                                   ELSE NewBuffer(store[response].body,
                                                  store[response].encoding)])]]
  /\ UNCHANGED <<loaderVars, store, storedSinceLoad>>

\* The callback of showSaveDialog of export e, called with filename.
SaveDialogCallback(e, filename) ==
  /\ e \in 1..Len(exports)
  /\ exports[e].phase = "dialog"
  /\ IF filename \in {Undefined, ""}
     THEN exports' = [exports EXCEPT ![e] =
            [@ EXCEPT !.phase = "done", !.filename = filename,
                      !.outcomes = Append(@, "Save Cancel")]]
     ELSE exports' = [exports EXCEPT ![e] =
            [@ EXCEPT !.phase = "writing", !.filename = filename,
                      !.writes = Append(@, [filename |-> filename,
                                            data |-> exports[e].bodyBuffer])]]
  /\ UNCHANGED <<loaderVars, store, storedSinceLoad>>

\* WriteFileCallback without its else: an error records the failure and then
\* the success.
WriteFileCallbackWithoutElse(e, err) ==
  /\ e \in 1..Len(exports)
  /\ exports[e].phase = "writing"
  /\ IF err
     THEN exports' = [exports EXCEPT ![e] =
            [@ EXCEPT !.phase = "done", !.err = "error",
                      !.outcomes = Append(Append(@, "Save Failure"), "Save Success")]]
     ELSE exports' = [exports EXCEPT ![e] =
            [@ EXCEPT !.phase = "done", !.err = "null",
                      !.outcomes = Append(@, "Save Success")]]
  /\ UNCHANGED <<loaderVars, store, storedSinceLoad>>

\* WriteFileCallback with its test inverted.
WriteFileCallbackInverted(e, err) ==
  /\ e \in 1..Len(exports)
  /\ exports[e].phase = "writing"
  /\ IF ~err
     THEN exports' = [exports EXCEPT ![e] =
            [@ EXCEPT !.phase = "done", !.err = "null",
                      !.outcomes = Append(@, "Save Failure")]]
     ELSE exports' = [exports EXCEPT ![e] =
            [@ EXCEPT !.phase = "done", !.err = "error",
                      !.outcomes = Append(@, "Save Success")]]
  /\ UNCHANGED <<loaderVars, store, storedSinceLoad>>

\* The callback of fs.writeFile of export e, called with err.
WriteFileCallback(e, err) ==
  /\ e \in 1..Len(exports)
  /\ exports[e].phase = "writing"
  /\ IF err
     THEN exports' = [exports EXCEPT ![e] =
            [@ EXCEPT !.phase = "done", !.err = "error",
                      !.outcomes = Append(@, "Save Failure")]]
     ELSE exports' = [exports EXCEPT ![e] =
            [@ EXCEPT !.phase = "done", !.err = "null",
                      !.outcomes = Append(@, "Save Success")]]
  /\ UNCHANGED <<loaderVars, store, storedSinceLoad>>

Init ==
  /\ mounted = FALSE
  /\ request \in RequestProps
  /\ response = NoResponse
  /\ store = <<>>
  /\ lookups = <<>>
  /\ loads = 0
  /\ storedSinceLoad = FALSE
  /\ exports = <<>>

Next ==
  \/ componentDidMount
  \/ \E r \in RequestProps : componentWillReceiveProps(r)
  \/ \E i \in 1..MaxLoads : StorageRead(i)
  \/ \E i \in 1..MaxLoads : LookupResolve(i)
  \/ \E r \in Requests, p \in 1..Len(Payloads) : CreateResponse(r, p)
  \/ HandleDownloadResponseBody
  \/ \E e \in 1..MaxExports, f \in Filenames : SaveDialogCallback(e, f)
  \/ \E e \in 1..MaxExports, err \in BOOLEAN : WriteFileCallback(e, err)

Spec == Init /\ [][Next]_vars

\* The loader with the storage, without the exporter: no exporter action
\* changes loaderVars, store or storedSinceLoad, or is disabled by them.
LoaderNext ==
  \/ componentDidMount
  \/ \E r \in RequestProps : componentWillReceiveProps(r)
  \/ \E i \in 1..MaxLoads : StorageRead(i)
  \/ \E i \in 1..MaxLoads : LookupResolve(i)
  \/ \E r \in Requests, p \in 1..Len(Payloads) : CreateResponse(r, p)

LoaderSpec == Init /\ [][LoaderNext]_vars

\* Every save dialog is answered and every write completes.
FairSpec ==
  /\ Spec
  /\ \A e \in 1..MaxExports :
       /\ WF_vars(\E f \in Filenames : SaveDialogCallback(e, f))
       /\ WF_vars(\E err \in BOOLEAN : WriteFileCallback(e, err))

\* ---------------------------------------------------------------- loader claims
\* r is what a read of docs for request req must give: null if no response
\* of docs has that parent, else a response of that parent that none of the
\* same parent was created after.
IsLatestOf(r, req, docs) ==
  IF \A j \in DOMAIN docs : docs[j].parentId # req
  THEN r = NoResponse
  ELSE /\ r \in DOMAIN docs
       /\ docs[r].parentId = req
       /\ \A j \in DOMAIN docs :
            docs[j].parentId = req => docs[j].created <= docs[r].created

\* C1: while a request is active, the response the pane holds is never a
\* response of another request (supersede rule).
C1_NeverShowsOtherRequestsResponse ==
  (request # NoRequest /\ response # NoResponse)
    => store[response].parentId = request

\* C2: once no lookup is in flight, and nothing was stored after the last
\* loader invocation, the pane holds the latest stored response of the active
\* request, or none if there is no such response or no active request.
C2_LoaderConverges ==
  (mounted /\ lookups = <<>> /\ ~storedSinceLoad)
    => IF request = NoRequest THEN response = NoResponse
       ELSE IsLatestOf(response, request, store)

\* C7: whenever no request is selected, the loaded response is absent and
\* render yields the empty placeholder.
C7_NoRequestMeansAbsent ==
  request = NoRequest
    => response = NoResponse /\ Render(request, response) = "empty"

\* C8: every value a loader invocation applies is the result of one fresh
\* read of storage for the request it was invoked with: an invocation with a
\* request suspends exactly one lookup for that request, the read of a lookup
\* gives the latest stored response of its request at the time of the read
\* (null if there is none) and happens once, and the value applied to the
\* pane when the lookup resolves is the value read.
C8_ReadStep ==
  \A i \in DOMAIN lookups :
    (Len(lookups') = Len(lookups) /\ lookups'[i] # lookups[i])
      => /\ lookups[i].phase = "pending"
         /\ lookups'[i].phase = "read"
         /\ lookups'[i].req = lookups[i].req
         /\ IsLatestOf(lookups'[i].result, lookups[i].req, store)

C8_ResolveStep ==
  Len(lookups') < Len(lookups)
    => \E i \in DOMAIN lookups :
         /\ lookups[i].phase = "read"
         /\ lookups' = RemoveAt(lookups, i)
         /\ response' = lookups[i].result

C8_InvokeStep ==
  Len(lookups') > Len(lookups)
    => /\ loads' = loads + 1
       /\ request' # NoRequest
       /\ lookups' = Append(lookups, [req |-> request', phase |-> "pending",
                                      result |-> NoResponse])
       /\ response' = response

\* C8: every step of the loader is an invocation, a read or a resolution as
\* described above.
C8_AppliesFreshLatest ==
  [][C8_ReadStep /\ C8_ResolveStep /\ C8_InvokeStep]_vars

\* C8's case: with two responses of one request stored, a lookup of that
\* request resolved and the pane holds the later one.
C8_Witness ==
  /\ Len(store) = 2
  /\ store[1].parentId = store[2].parentId
  /\ request = store[2].parentId
  /\ response = 2
  /\ lookups = <<>>

\* -------------------------------------------------------------- exporter claims
Outcomes == {"Save Cancel", "Save Success", "Save Failure"}

\* The export a step has just started, if it started one.
Started == Len(exports') = Len(exports) + 1
New == exports'[Len(exports')]

\* C3: an export invoked with a response loaded prompts once, writes at most
\* once and records at most one outcome, one of cancelled, success, failure,
\* and has recorded exactly one when it is done; a step of one export leaves
\* every other export as it was; and every such export comes to its outcome.
C3_Counts ==
  \A e \in DOMAIN exports :
    exports[e].response # NoResponse
      => /\ exports[e].prompts = 1
         /\ Len(exports[e].writes) <= 1
         /\ Len(exports[e].outcomes) <= 1
         /\ \A k \in DOMAIN exports[e].outcomes : exports[e].outcomes[k] \in Outcomes
         /\ exports[e].phase \in {"dialog", "writing", "done"}
         /\ exports[e].phase = "done" <=> Len(exports[e].outcomes) = 1

C3_Isolation ==
  /\ Len(exports') >= Len(exports)
  /\ \A e \in DOMAIN exports :
       exports'[e] # exports[e]
         => \A f \in DOMAIN exports \ {e} : exports'[f] = exports[f]
  /\ Started => \A f \in DOMAIN exports : exports'[f] = exports[f]

\* C3: the counts hold in every state, exports do not interfere, and every
\* export with a response comes to exactly one outcome.
C3_OneDialogOneWriteOneOutcome ==
  /\ []C3_Counts
  /\ [][C3_Isolation]_vars
  /\ \A e \in 1..MaxExports :
       (e \in DOMAIN exports /\ exports[e].response # NoResponse)
         ~> (e \in DOMAIN exports /\ Len(exports[e].outcomes) = 1)

\* C3's case: two exports overlap, the later one done with its file written
\* while the save dialog of the earlier one is still open.
C3_Witness ==
  /\ Len(exports) >= 2
  /\ exports[1].phase = "dialog"
  /\ exports[2].phase = "done"
  /\ exports[2].outcomes = <<"Save Success">>

\* C4: an export invoked with no response loaded prompts no dialog, writes
\* nothing and records no outcome, then or later, and its invocation leaves
\* the component's state and the storage as they were.
C4_NothingDone ==
  \A e \in DOMAIN exports :
    exports[e].response = NoResponse
      => /\ exports[e].phase = "warned"
         /\ exports[e].prompts = 0
         /\ exports[e].writes = <<>>
         /\ exports[e].outcomes = <<>>

C4_InvokeStep ==
  (Started /\ response = NoResponse)
    => /\ New.response = NoResponse
       /\ New.phase = "warned"
       /\ New.prompts = 0
       /\ response' = response
       /\ UNCHANGED <<mounted, request, lookups, loads, store>>

\* C4: an export without a response has no effect, at its invocation and after.
C4_NoResponseNoEffect == []C4_NothingDone /\ [][C4_InvokeStep]_vars

\* C4's case: the handler was called with a request selected and no response
\* loaded.
C4_Witness ==
  \E e \in DOMAIN exports : exports[e].phase = "warned" /\ request # NoRequest

\* C5: an export whose save dialog returned undefined or '' has written
\* nothing and has recorded the cancelled outcome and no other; an export
\* that has written was given a non-empty path by its dialog and wrote there.
C5_CancelWritesNothing ==
  \A e \in DOMAIN exports :
    /\ (exports[e].phase \in {"writing", "done"}
          /\ exports[e].filename \in {Undefined, ""})
         => /\ exports[e].writes = <<>>
            /\ exports[e].outcomes = <<"Save Cancel">>
    /\ exports[e].writes # <<>>
         => /\ exports[e].phase \in {"writing", "done"}
            /\ exports[e].filename \notin {Undefined, ""}
            /\ exports[e].writes[1].filename = exports[e].filename

\* C5's case: a dialog returned '' and its export is done.
C5_Witness ==
  \E e \in DOMAIN exports :
    /\ exports[e].response # NoResponse
    /\ exports[e].phase = "done"
    /\ exports[e].filename = ""

\* C6: an export whose write reported an error has recorded the failure
\* outcome and no other and has written once; one whose write completed
\* without error has recorded the success outcome and no other; success is
\* recorded only by an export whose write has completed without error.
C6_OutcomeFollowsWrite ==
  \A e \in DOMAIN exports :
    /\ exports[e].err = "error"
         => exports[e].outcomes = <<"Save Failure">> /\ Len(exports[e].writes) = 1
    /\ exports[e].err = "null"
         => exports[e].outcomes = <<"Save Success">> /\ Len(exports[e].writes) = 1
    /\ (\E k \in DOMAIN exports[e].outcomes : exports[e].outcomes[k] = "Save Success")
         => exports[e].err = "null" /\ exports[e].phase = "done"
    /\ exports[e].phase = "writing"
         => exports[e].outcomes = <<>> /\ exports[e].err = "none"

\* C6's case: one export's write failed and another's succeeded.
C6_Witness ==
  \E e, f \in DOMAIN exports :
    exports[e].err = "error" /\ exports[f].err = "null"

\* C9: the download control is rendered only with a request selected and a
\* response loaded, and an export started while it is rendered finds a
\* response and does not take the no-response branch.
C9_Rendered ==
  DownloadRendered => request # NoRequest /\ response # NoResponse

C9_InvokeStep ==
  (Started /\ DownloadRendered)
    => New.phase = "dialog" /\ New.response # NoResponse

\* C9: the control implies a response, in every state and at every invocation.
C9_ControlImpliesResponse == []C9_Rendered /\ [][C9_InvokeStep]_vars

\* C9's case: an export was started, and the control is rendered, with a
\* lookup of another request in flight.
C9_Witness ==
  /\ DownloadRendered
  /\ exports # <<>>
  /\ exports[Len(exports)].phase = "dialog"
  /\ exports[Len(exports)].response = response
  /\ lookups # <<>>

\* The bytes of the two bodies: "Hello" and 68 c3 a9.
BytesOf(doc) ==
  IF doc.encoding = "base64" /\ doc.body = <<83, 71, 86, 115, 98, 71, 56, 61>>
  THEN <<72, 101, 108, 108, 111>>
  ELSE IF doc.encoding = "utf8" /\ doc.body = <<104, 233>>
  THEN <<104, 195, 169>>
  ELSE <<-1>>

\* C10: what an export writes is the decoded body of the response that was
\* loaded when it was invoked, whatever is loaded when its dialog returns;
\* and no step of an export changes the loaded response.
C10_Snapshot ==
  \A e \in DOMAIN exports :
    \A k \in DOMAIN exports[e].writes :
      /\ exports[e].response # NoResponse
      /\ exports[e].writes[k].data = BytesOf(store[exports[e].response])

C10_ExportStep ==
  /\ Started => New.response = response
  /\ exports' # exports => response' = response /\ request' = request

\* C10: every write is of the snapshot, and exports leave the loaded response.
C10_WritesSnapshot == []C10_Snapshot /\ [][C10_ExportStep]_vars

\* C10's case: an export has written and succeeded, and the response loaded
\* now is another one with another body, or none.
C10_Witness ==
  \E e \in DOMAIN exports :
    /\ exports[e].outcomes = <<"Save Success">>
    /\ response # exports[e].response
    /\ response # NoResponse => store[response].body # store[exports[e].response].body
====
